---- MODULE Spec2Model ----
(***************************************************************************)
(* Three-tier registry resolution of fractary_forge: the Local, Global and *)
(* Remote resolvers and the Agent / Tool registry orchestrators.           *)
(*                                                                         *)
(* Strings are sequences of character codes, so that splitting on '@' and  *)
(* Python's lexical string order are computed, not assumed.  The registry  *)
(* trees of the local and the global tier are a set of filesystem entries; *)
(* the remote registry is the response its HTTP service gives.             *)
(***************************************************************************)
EXTENDS Integers, Sequences, FiniteSets, TLC

VARIABLES
    fs,                   \* the entries present on disk, both tiers
    remote_registry_url,  \* config.remote_registry_url (None or a URL)
    remote,               \* how the remote service answers a GET
    pc,                   \* "idle", or "returned" after a public call
    request,              \* the public call made and its arguments
    trace,                \* the resolver sub-calls the call made, in order
    outcome,              \* what the public call returned or raised
    call,                 \* per concurrent caller: where its call stands
    frame                 \* per call frame: the local `result` / `results`

vars == <<fs, remote_registry_url, remote, pc, request, trace, outcome, call, frame>>

-----------------------------------------------------------------------------
(* Bounds *)

\* at most this many entries are present on disk
MaxEntries == 2

\* identifier tokens given to the parser are at most this long
MaxTokenLen == 5

-----------------------------------------------------------------------------
(* Strings *)

AtSign == 64

\* Optional[str] = None
None == <<-1>>

StrEmpty == <<>>
StrA == <<97>>
StrB == <<98>>
StrA_at_2 == <<97, 64, 50>>
StrAt2 == <<64, 50>>
Str2 == <<50>>
Str10 == <<49, 48>>
Url == <<104>>

\* Python truthiness of an Optional[str]
Truthy(s) == s # None /\ s # StrEmpty

\* Python's `a or b` on Optional[str]
OrElse(a, b) == IF Truthy(a) THEN a ELSE b

\* Python's str.__lt__: lexical by code point
RECURSIVE StrLess(_, _)
StrLess(s, t) ==
    IF t = <<>> THEN FALSE
    ELSE IF s = <<>> THEN TRUE
    ELSE IF Head(s) # Head(t) THEN Head(s) < Head(t)
    ELSE StrLess(Tail(s), Tail(t))

\* the value of a decimal numeral (what a semantic version order would compare)
RECURSIVE NumVal(_)
NumVal(s) == IF s = <<>> THEN 0 ELSE 10 * NumVal(SubSeq(s, 1, Len(s) - 1)) + (s[Len(s)] - 48)

NumLess(s, t) == NumVal(s) < NumVal(t)

SortReverseByNumber(S) ==
    CHOOSE q \in [1..Cardinality(S) -> S] :
        /\ \A i, j \in 1..Cardinality(S) : i < j => NumLess(q[j], q[i])

\* list.sort(reverse=True) of the distinct strings of S
SortReverse(S) ==
    CHOOSE q \in [1..Cardinality(S) -> S] :
        /\ \A i, j \in 1..Cardinality(S) : i < j => StrLess(q[j], q[i])

-----------------------------------------------------------------------------
(* BaseResolver *)

parse_name_version_last_at(name) ==
    IF \E i \in 1..Len(name) : name[i] = AtSign
    THEN LET i == CHOOSE k \in 1..Len(name) :
                      name[k] = AtSign /\ \A j \in (k + 1)..Len(name) : name[j] # AtSign
         IN <<SubSeq(name, 1, i - 1), SubSeq(name, i + 1, Len(name))>>
    ELSE <<name, None>>

\* 'name@version' -> (name, version), split on the first '@'
_parse_name_version(name) ==
    IF \E i \in 1..Len(name) : name[i] = AtSign
    THEN LET i == CHOOSE k \in 1..Len(name) :
                      name[k] = AtSign /\ \A j \in 1..(k - 1) : name[j] # AtSign
         IN <<SubSeq(name, 1, i - 1), SubSeq(name, i + 1, Len(name))>>
    ELSE <<name, None>>

-----------------------------------------------------------------------------
(* Values passed between the resolvers and the registries *)

NoResult == [name |-> <<>>, version |-> <<>>, path |-> <<>>, source |-> "",
             metadata |-> <<>>]

NoError == [type |-> "", name |-> <<>>, version |-> <<>>, searched |-> <<>>,
            path |-> <<>>, status_code |-> 0, url |-> <<>>]

\* ResolutionResult(name, version, path, source, metadata)
ResolutionResult(name, version, path, source, metadata) ==
    [name |-> name, version |-> version, path |-> path, source |-> source,
     metadata |-> metadata]

Found(r) == [tag |-> "result", result |-> r, error |-> NoError, list |-> <<>>]
Absent == [tag |-> "absent", result |-> NoResult, error |-> NoError, list |-> <<>>]
Raise(e) == [tag |-> "raise", result |-> NoResult, error |-> e, list |-> <<>>]
Listed(l) == [tag |-> "list", result |-> NoResult, error |-> NoError, list |-> l]
Bool(b) == [tag |-> IF b THEN "true" ELSE "false", result |-> NoResult,
            error |-> NoError, list |-> <<>>]
NoOutcome == [tag |-> "", result |-> NoResult, error |-> NoError, list |-> <<>>]

\* ResolutionError(message, name, details={"path": ...})
ResolutionError(name, path) ==
    [NoError EXCEPT !.type = "ResolutionError", !.name = name, !.path = path]

\* NetworkError(message, status_code=...)
NetworkErrorStatus(status) ==
    [NoError EXCEPT !.type = "NetworkError", !.status_code = status]

\* NetworkError(message, details={"url": ...})
NetworkErrorUrl(url) ==
    [NoError EXCEPT !.type = "NetworkError", !.url = url]

\* an exception that is no ForgeError (json.JSONDecodeError, KeyError, ...)
OtherError(type) == [NoError EXCEPT !.type = type]

-----------------------------------------------------------------------------
(* The registry tree on disk: {root}/{agents|tools}/{name}/{version}/definition.yaml *)

Tiers == {"local", "global"}
kinds_tools_first == <<"tools", "agents">>

\* `for item_type in ["agents", "tools"]`, in AgentRegistry and ToolRegistry alike
Kinds == <<"agents", "tools">>

\* an entry of a tier: the bare root directory, or a version directory that
\* has no definition.yaml ("verdir"), a loadable one ("doc") or one that
\* cannot be read or parsed ("baddoc"); or a regular file where a version
\* directory is expected ("verfile"); or, at the place of an artifact
\* directory, a regular file ("namefile") or an empty directory ("namedir")
RootEntry(t) == [tier |-> t, kind |-> "", name |-> <<>>, ver |-> <<>>, node |-> "root"]
VerEntry(t, k, n, v, node) == [tier |-> t, kind |-> k, name |-> n, ver |-> v, node |-> node]

NameEntry(t, k, n, node) == [tier |-> t, kind |-> k, name |-> n, ver |-> <<>>, node |-> node]

VerDirs == {Str2, Str10}
VerNodes == {"verdir", "doc", "baddoc"}
NameNodes == {"namefile", "namedir"}

\* what may be on disk: artifact "a" in every shape, and agent "b" as a sound
\* bystander with the one version "2"
Entries ==
    {RootEntry(t) : t \in Tiers}
    \cup {VerEntry(t, Kinds[k], StrA, v, node) :
            t \in Tiers, k \in 1..2, v \in VerDirs, node \in VerNodes}
    \cup {VerEntry(t, Kinds[1], StrB, Str2, "doc") : t \in Tiers}

\* the same, and artifact "a" as a regular file, as an empty directory, or
\* holding a regular file where a version directory is expected
TreeEntries ==
    Entries
    \cup {NameEntry(t, Kinds[k], StrA, node) : t \in Tiers, k \in 1..2, node \in NameNodes}
    \cup {VerEntry(t, Kinds[k], StrA, v, "verfile") : t \in Tiers, k \in 1..2, v \in VerDirs}

\* a path names one thing only; the bare root is written down only when the
\* tier holds nothing else, and so is an artifact directory
WellFormed(f) ==
    \A e1, e2 \in f :
        /\ (e1.node # "root" /\ e1.tier = e2.tier /\ e1.kind = e2.kind
              /\ e1.name = e2.name /\ e1.ver = e2.ver) => e1 = e2
        /\ (e1.node = "root" /\ e1.tier = e2.tier) => e1 = e2
        /\ (e1.node \in NameNodes /\ e1.tier = e2.tier /\ e1.kind = e2.kind
              /\ e1.name = e2.name) => e1 = e2

RECURSIVE SubsetsUpTo(_, _)
SubsetsUpTo(S, k) ==
    IF k = 0 THEN {{}}
    ELSE LET P == SubsetsUpTo(S, k - 1) IN P \cup {p \cup {e} : p \in P, e \in S}

\* registry_path.exists()
RootExists(f, t) == \E e \in f : e.tier = t

\* (registry_path / item_type).exists()
KindExists(f, t, k) == \E e \in f : e.tier = t /\ e.kind = k

\* (registry_path / item_type / name).exists(); joining the empty name
\* gives the bucket directory itself
NameExists(f, t, k, n) ==
    IF n = <<>> THEN KindExists(f, t, k)
    ELSE \E e \in f : e.tier = t /\ e.kind = k /\ e.name = n

\* base_dir is a directory, so that base_dir.iterdir() can list it
NameIsDir(f, t, k, n) ==
    IF n = <<>> THEN KindExists(f, t, k)
    ELSE \E e \in f : e.tier = t /\ e.kind = k /\ e.name = n /\ e.node # "namefile"

\* [d.name for d in base_dir.iterdir() if d.is_dir()]
VersionDirsOf(f, t, k, n) ==
    IF n = <<>>
    THEN {e.name : e \in {x \in f : x.tier = t /\ x.kind = k /\ x.node # "namefile"}}
    ELSE
    {e.ver : e \in {x \in f : x.tier = t /\ x.kind = k /\ x.name = n
                                /\ x.node \in {"verdir", "doc", "baddoc"}}}

\* (base_dir / version / "definition.yaml").exists()
DefinitionExists(f, t, k, n, v) ==
    \E e \in f : e.tier = t /\ e.kind = k /\ e.name = n /\ e.ver = v
                  /\ e.node \in {"doc", "baddoc"}

\* open() and yaml.safe_load() succeed and the model validates
DefinitionLoads(f, t, k, n, v) ==
    \E e \in f : e.tier = t /\ e.kind = k /\ e.name = n /\ e.ver = v /\ e.node = "doc"

\* definition_path, str(definition_path.parent) and the parsed document
DefinitionPath(t, k, n, v) == <<t, k, n, v, "definition.yaml">>
PathOf(t, k, n, v) == <<t, k, n, v>>
DefinitionOf(t, k, n, v) == <<"definition", t, k, n, v>>

-----------------------------------------------------------------------------
(* LocalResolver *)

_create_result(f, t, k, name, version) ==
    IF DefinitionLoads(f, t, k, name, version)
    THEN Found(ResolutionResult(name, version, PathOf(t, k, name, version), "local",
                                DefinitionOf(t, k, name, version)))
    ELSE Raise(ResolutionError(name, DefinitionPath(t, k, name, version)))

find_version_newest_with_doc(f, t, k, name, version) ==
    IF ~NameExists(f, t, k, name) THEN Absent
    ELSE IF Truthy(version)
    THEN IF DefinitionExists(f, t, k, name, version)
         THEN _create_result(f, t, k, name, version)
         ELSE Absent
    ELSE IF ~NameIsDir(f, t, k, name) THEN Raise(OtherError("NotADirectoryError"))
    ELSE LET versions == SortReverse({v \in VersionDirsOf(f, t, k, name) :
                                        DefinitionExists(f, t, k, name, v)}) IN
         IF versions = <<>> THEN Absent
         ELSE _create_result(f, t, k, name, versions[1])

find_version_semver(f, t, k, name, version) ==
    IF ~NameExists(f, t, k, name) THEN Absent
    ELSE IF Truthy(version)
    THEN IF DefinitionExists(f, t, k, name, version)
         THEN _create_result(f, t, k, name, version)
         ELSE Absent
    ELSE LET versions == SortReverseByNumber(VersionDirsOf(f, t, k, name)) IN
         IF versions = <<>> THEN Absent
         ELSE IF DefinitionExists(f, t, k, name, versions[1])
              THEN _create_result(f, t, k, name, versions[1])
              ELSE Absent

find_version_fallback_latest(f, t, k, name, version) ==
    IF ~NameExists(f, t, k, name) THEN Absent
    ELSE IF Truthy(version) /\ DefinitionExists(f, t, k, name, version)
    THEN _create_result(f, t, k, name, version)
    ELSE LET versions == SortReverse(VersionDirsOf(f, t, k, name)) IN
         IF versions = <<>> THEN Absent
         ELSE IF DefinitionExists(f, t, k, name, versions[1])
              THEN _create_result(f, t, k, name, versions[1])
              ELSE Absent

_find_version(f, t, k, name, version) ==
    IF ~NameExists(f, t, k, name) THEN Absent
    ELSE IF Truthy(version)
    THEN IF DefinitionExists(f, t, k, name, version)
         THEN _create_result(f, t, k, name, version)
         ELSE Absent
    ELSE IF ~NameIsDir(f, t, k, name) THEN Raise(OtherError("NotADirectoryError"))
    ELSE LET versions == SortReverse(VersionDirsOf(f, t, k, name)) IN
         IF versions = <<>> THEN Absent
         ELSE IF DefinitionExists(f, t, k, name, versions[1])
              THEN _create_result(f, t, k, name, versions[1])
              ELSE Absent

\* the loop `for item_type in ["agents", "tools"]`, from bucket i on
RECURSIVE SearchKinds(_, _, _, _, _)
SearchKinds(f, t, i, parsed_name, version) ==
    IF i > Len(Kinds) THEN Absent
    ELSE IF ~NameExists(f, t, Kinds[i], parsed_name)
    THEN SearchKinds(f, t, i + 1, parsed_name, version)
    ELSE LET result == _find_version(f, t, Kinds[i], parsed_name, version) IN
         IF result.tag = "absent"
         THEN SearchKinds(f, t, i + 1, parsed_name, version)
         ELSE result

local_resolve_embedded_first(f, t, name, version) ==
    IF ~RootExists(f, t) THEN Absent
    ELSE LET parsed == _parse_name_version(name) IN
         SearchKinds(f, t, 1, parsed[1], OrElse(parsed[2], version))

local_resolve_root_required(f, t, name, version) ==
    IF ~RootExists(f, t) THEN Raise(OtherError("FileNotFoundError"))
    ELSE LET parsed == _parse_name_version(name) IN
         SearchKinds(f, t, 1, parsed[1], OrElse(version, parsed[2]))

\* LocalResolver.resolve on the tree rooted at tier t
LocalResolve(f, t, name, version) ==
    IF ~RootExists(f, t) THEN Absent
    ELSE LET parsed == _parse_name_version(name) IN
         SearchKinds(f, t, 1, parsed[1], OrElse(version, parsed[2]))

global_resolve_no_retag(f, name, version) == LocalResolve(f, "global", name, version)

\* GlobalResolver.resolve: the local algorithm, then result.source = "global"
GlobalResolve(f, name, version) ==
    LET result == LocalResolve(f, "global", name, version) IN
    IF result.tag = "result"
    THEN [result EXCEPT !.result.source = "global"]
    ELSE result

-----------------------------------------------------------------------------
(* LocalResolver.list_all.  Path.iterdir() yields a directory's entries in  *)
(* no specified order, so list_all has a set of possible outcomes.          *)

RECURSIVE Perms(_)
Perms(S) ==
    IF S = {} THEN {<<>>}
    ELSE UNION {{<<x>> \o p : p \in Perms(S \ {x})} : x \in S}

\* one step after another; the first exception ends the walk
Then(a, b) ==
    IF a.tag = "raise" THEN a
    ELSE IF b.tag = "raise" THEN b
    ELSE Listed(a.list \o b.list)

ThenAny(A, B) == {Then(a, b) : a \in A, b \in B}

RECURSIVE walk_versions_unchecked(_, _, _, _, _, _)
walk_versions_unchecked(f, t, k, n, p, i) ==
    IF i > Len(p) THEN Listed(<<>>)
    ELSE LET result == _create_result(f, t, k, n, p[i]) IN
         IF result.tag = "raise" THEN result
         ELSE Then(Listed(<<result.result>>), walk_versions_unchecked(f, t, k, n, p, i + 1))

\* `for version_dir in name_dir.iterdir()` in the order p, from index i on
RECURSIVE WalkVersions(_, _, _, _, _, _)
WalkVersions(f, t, k, n, p, i) ==
    IF i > Len(p) THEN Listed(<<>>)
    ELSE IF ~DefinitionExists(f, t, k, n, p[i])
    THEN WalkVersions(f, t, k, n, p, i + 1)
    ELSE LET result == _create_result(f, t, k, n, p[i]) IN
         IF result.tag = "raise" THEN result
         ELSE Then(Listed(<<result.result>>), WalkVersions(f, t, k, n, p, i + 1))

\* `for name_dir in type_dir.iterdir()` in the order q, from index i on
RECURSIVE WalkNames(_, _, _, _, _)
WalkNames(f, t, k, q, i) ==
    IF i > Len(q) THEN {Listed(<<>>)}
    ELSE ThenAny({WalkVersions(f, t, k, q[i], p, 1) :
                     p \in Perms(VersionDirsOf(f, t, k, q[i]))},
                 WalkNames(f, t, k, q, i + 1))

NamesOf(f, t, k) == {e.name : e \in {x \in f : x.tier = t /\ x.kind = k}}

WalkKind(f, t, k) ==
    IF ~KindExists(f, t, k) THEN {Listed(<<>>)}
    ELSE UNION {WalkNames(f, t, k, q, 1) : q \in Perms(NamesOf(f, t, k))}

\* LocalResolver.list_all on the tree rooted at tier t: its possible outcomes
LocalListAll(f, t) ==
    IF ~RootExists(f, t) THEN {Listed(<<>>)}
    ELSE ThenAny(WalkKind(f, t, Kinds[1]), WalkKind(f, t, Kinds[2]))

\* GlobalResolver inherits list_all unchanged
GlobalListAll(f) == LocalListAll(f, "global")

-----------------------------------------------------------------------------
(* RemoteResolver *)

StatusOK == 200
StatusNotFound == 404

DefaultUrl == <<100>>

\* the service: unreachable (httpx raises an HTTPError: DNS, refused, timeout),
\* or answering with a status and a body that is a JSON record with the fields
\* ("valid"), no JSON ("notjson") or JSON without "name" ("nofield")
RemoteModes ==
    {[reachable |-> FALSE, status |-> 0, body |-> ""],
     [reachable |-> TRUE, status |-> StatusNotFound, body |-> ""],
     [reachable |-> TRUE, status |-> 500, body |-> ""],
     [reachable |-> TRUE, status |-> StatusOK, body |-> "valid"],
     [reachable |-> TRUE, status |-> StatusOK, body |-> "notjson"],
     [reachable |-> TRUE, status |-> StatusOK, body |-> "nofield"]}

\* 201 Created: a success status of the 2xx class that is not 200
StatusCreated == 201

\* the same, and a service that answers 201 with a sound record, or 200 with
\* the sound record of an artifact that is not the one asked for ("another")
RemoteModesAny ==
    RemoteModes \cup {[reachable |-> TRUE, status |-> StatusCreated, body |-> "valid"],
                      [reachable |-> TRUE, status |-> StatusOK, body |-> "another"]}

\* a service that takes the request and never answers it
Silent == [reachable |-> FALSE, status |-> 0, body |-> "silent"]

client_timeout_none == [seconds |-> 0, bounded |-> FALSE]

\* httpx.Client(timeout=30.0): every request is cut off after 30 seconds
ClientTimeout == [seconds |-> 30, bounded |-> TRUE]

\* the record the service sends for a name and an optional version
ServerRecord(name, version) ==
    [name |-> name, version |-> IF Truthy(version) THEN version ELSE Str10,
     path |-> <<"remote", "", name, IF Truthy(version) THEN version ELSE Str10>>,
     metadata |-> <<"definition", "remote", "", name,
                    IF Truthy(version) THEN version ELSE Str10>>]

ServerItems == <<ServerRecord(StrA, Str2), ServerRecord(StrB, Str2)>>

FromData(data) ==
    ResolutionResult(data.name, data.version, data.path, "remote", data.metadata)

\* RemoteResolver.resolve; url is the registry_url given to the constructor
RemoteResolve(url, rm, name, version) ==
    LET parsed == _parse_name_version(name)
        v == OrElse(version, parsed[2])
        registry_url == OrElse(url, DefaultUrl)
    IN  IF ~rm.reachable THEN Raise(NetworkErrorUrl(registry_url))
        ELSE IF rm.status = StatusNotFound THEN Absent
        ELSE IF rm.status # StatusOK THEN Raise(NetworkErrorStatus(rm.status))
        ELSE IF rm.body = "notjson" THEN Raise(OtherError("JSONDecodeError"))
        ELSE IF rm.body = "nofield" THEN Raise(OtherError("KeyError"))
        ELSE IF rm.body = "another" THEN Found(FromData(ServerRecord(StrB, Str2)))
        ELSE Found(FromData(ServerRecord(parsed[1], v)))

\* RemoteResolver.list_all
RemoteListAll(url, rm) ==
    LET registry_url == OrElse(url, DefaultUrl)
    IN  IF ~rm.reachable THEN Raise(NetworkErrorUrl(registry_url))
        ELSE IF rm.status # StatusOK THEN Raise(NetworkErrorStatus(rm.status))
        ELSE IF rm.body = "notjson" THEN Raise(OtherError("JSONDecodeError"))
        ELSE IF rm.body = "nofield" THEN Raise(OtherError("KeyError"))
        ELSE Listed([i \in 1..Len(ServerItems) |-> FromData(ServerItems[i])])

-----------------------------------------------------------------------------
(* AgentRegistry and ToolRegistry: the same code but for the error raised *)

\* AgentNotFoundError / ToolNotFoundError(name, details={"version", "searched"})
NotFoundError(type, name, version) ==
    [NoError EXCEPT !.type = type, !.name = name, !.version = version,
                    !.searched = <<"local", "global", "remote">>]

\* one resolver sub-call and what it gave
Sub(tier, out) == [tier |-> tier, out |-> out]

Done(tr, out) == [trace |-> tr, outcome |-> out]

registry_resolve_remote_first(type, f, url, rm, name, version, prefer_local) ==
    LET l == LocalResolve(f, "local", name, version)
        g == GlobalResolve(f, name, version)
        r == RemoteResolve(url, rm, name, version)
    IN  IF Truthy(url) /\ r.tag = "result"
        THEN Done(<<Sub("remote", r)>>, r)
        ELSE IF l.tag # "absent" THEN Done(<<Sub("local", l)>>, l)
        ELSE IF g.tag # "absent" THEN Done(<<Sub("local", l), Sub("global", g)>>, g)
        ELSE Done(<<Sub("local", l), Sub("global", g)>>,
                  Raise(NotFoundError(type, name, version)))

registry_resolve_remote_propagates(type, f, url, rm, name, version, prefer_local) ==
    LET l == LocalResolve(f, "local", name, version)
        g == GlobalResolve(f, name, version)
        r == RemoteResolve(url, rm, name, version)
    IN  IF l.tag # "absent" THEN Done(<<Sub("local", l)>>, l)
        ELSE IF g.tag # "absent" THEN Done(<<Sub("local", l), Sub("global", g)>>, g)
        ELSE IF Truthy(url)
        THEN Done(<<Sub("local", l), Sub("global", g), Sub("remote", r)>>,
                  IF r.tag # "absent" THEN r
                  ELSE Raise(NotFoundError(type, name, version)))
        ELSE Done(<<Sub("local", l), Sub("global", g)>>,
                  Raise(NotFoundError(type, name, version)))

registry_resolve_skip_broken(type, f, url, rm, name, version, prefer_local) ==
    LET l == LocalResolve(f, "local", name, version)
        g == GlobalResolve(f, name, version)
        r == RemoteResolve(url, rm, name, version)
    IN  IF l.tag = "result" THEN Done(<<Sub("local", l)>>, l)
        ELSE IF g.tag = "result" THEN Done(<<Sub("local", l), Sub("global", g)>>, g)
        ELSE IF Truthy(url)
        THEN Done(<<Sub("local", l), Sub("global", g), Sub("remote", r)>>,
                  IF r.tag = "result" THEN r
                  ELSE Raise(NotFoundError(type, name, version)))
        ELSE Done(<<Sub("local", l), Sub("global", g)>>,
                  Raise(NotFoundError(type, name, version)))

registry_resolve_honouring_preference(type, f, url, rm, name, version, prefer_local) ==
    LET l == LocalResolve(f, "local", name, version)
        g == GlobalResolve(f, name, version)
        r == RemoteResolve(url, rm, name, version)
    IN  IF ~prefer_local /\ Truthy(url) /\ r.tag = "result"
        THEN Done(<<Sub("remote", r)>>, r)
        ELSE IF l.tag # "absent" THEN Done(<<Sub("local", l)>>, l)
        ELSE IF g.tag # "absent" THEN Done(<<Sub("local", l), Sub("global", g)>>, g)
        ELSE IF Truthy(url)
        THEN Done(<<Sub("local", l), Sub("global", g), Sub("remote", r)>>,
                  IF r.tag = "result" THEN r
                  ELSE Raise(NotFoundError(type, name, version)))
        ELSE Done(<<Sub("local", l), Sub("global", g)>>,
                  Raise(NotFoundError(type, name, version)))

\* agent_resolve / tool_resolve; type is the kind's not-found error
registry_resolve(type, f, url, rm, name, version, prefer_local) ==
    LET l == LocalResolve(f, "local", name, version)
        g == GlobalResolve(f, name, version)
        r == RemoteResolve(url, rm, name, version)
    IN  IF l.tag # "absent" THEN Done(<<Sub("local", l)>>, l)
        ELSE IF g.tag # "absent" THEN Done(<<Sub("local", l), Sub("global", g)>>, g)
        ELSE IF Truthy(url)
        THEN Done(<<Sub("local", l), Sub("global", g), Sub("remote", r)>>,
                  IF r.tag = "result" THEN r
                  ELSE Raise(NotFoundError(type, name, version)))
        ELSE Done(<<Sub("local", l), Sub("global", g)>>,
                  Raise(NotFoundError(type, name, version)))

registry_exists_catch_all(type, f, url, rm, name, version) ==
    LET d == registry_resolve(type, f, url, rm, name, version, TRUE) IN
    Done(d.trace, Bool(d.outcome.tag = "result"))

\* agent_exists / tool_exists: resolve, `except <kind>NotFoundError: return False`
registry_exists(type, f, url, rm, name, version) ==
    LET d == registry_resolve(type, f, url, rm, name, version, TRUE) IN
    IF d.outcome.tag = "result" THEN Done(d.trace, Bool(TRUE))
    ELSE IF d.outcome.error.type = type THEN Done(d.trace, Bool(FALSE))
    ELSE d

\* the source filter of agent_list / tool_list; NoSource is None
NoSource == "None"
Sources == {NoSource, "local", "global", "remote", "cache"}

\* results.extend(resolver.list_all()) after the sub-calls and results of d
extend_skipping_failure(d, tier, out) ==
    IF d.outcome.tag = "raise" THEN d
    ELSE IF out.tag = "raise" THEN Done(Append(d.trace, Sub(tier, out)), d.outcome)
    ELSE Done(Append(d.trace, Sub(tier, out)), Listed(d.outcome.list \o out.list))

Extend(d, tier, out) ==
    IF d.outcome.tag = "raise" THEN d
    ELSE IF out.tag = "raise" THEN Done(Append(d.trace, Sub(tier, out)), out)
    ELSE Done(Append(d.trace, Sub(tier, out)), Listed(d.outcome.list \o out.list))

\* the same inside `try: ... except Exception: logger.warning(...)`
ExtendCaught(d, tier, out) ==
    IF d.outcome.tag = "raise" THEN d
    ELSE IF out.tag = "raise" THEN Done(Append(d.trace, Sub(tier, out)), d.outcome)
    ELSE Done(Append(d.trace, Sub(tier, out)), Listed(d.outcome.list \o out.list))

registry_list_with_unfiltered_global(l, g, url, rm, source) ==
    LET d0 == Done(<<>>, Listed(<<>>))
        d1 == IF source = NoSource \/ source = "local" THEN Extend(d0, "local", l) ELSE d0
        d2 == Extend(d1, "global", g)
    IN  IF (source = NoSource \/ source = "remote") /\ Truthy(url)
        THEN ExtendCaught(d2, "remote", RemoteListAll(url, rm))
        ELSE d2

\* agent_list / tool_list given what each list_all gives (l, g: local, global)
registry_list_with(l, g, url, rm, source) ==
    LET d0 == Done(<<>>, Listed(<<>>))
        d1 == IF source = NoSource \/ source = "local" THEN Extend(d0, "local", l) ELSE d0
        d2 == IF source = NoSource \/ source = "global" THEN Extend(d1, "global", g) ELSE d1
    IN  IF (source = NoSource \/ source = "remote") /\ Truthy(url)
        THEN ExtendCaught(d2, "remote", RemoteListAll(url, rm))
        ELSE d2

\* the possible outcomes of agent_list / tool_list
registry_list(f, url, rm, source) ==
    {registry_list_with(l, g, url, rm, source) :
        l \in LocalListAll(f, "local"), g \in GlobalListAll(f)}

-----------------------------------------------------------------------------
(* The state machine: public calls on one AgentRegistry and one ToolRegistry *)
(* built from the same configuration, over a registry state that the calls  *)
(* do not change.                                                           *)

Tokens == {StrA, StrA_at_2, StrB}
VersionArgs == {None, Str2, Str10}

\* AgentConfig() / ToolConfig(): the configuration a registry built without
\* one gets, `remote_registry_url: Optional[str] = None`
AgentConfig == [remote_registry_url |-> None]

\* the callers that may use the one registry instance at the same time
Callers == {"c1", "c2"}

\* a caller that has no call in progress
NoCall == [pc |-> "idle", op |-> "", name |-> <<>>, version |-> None,
           source |-> NoSource, sent |-> 0, outcome |-> NoOutcome]

NoCalls == [c \in Callers |-> NoCall]
NoFrames == [c \in Callers |-> NoOutcome]

NoRequest == [op |-> "", name |-> <<>>, version |-> None, prefer_local |-> TRUE,
              source |-> NoSource]

Init ==
    /\ fs \in {f \in SubsetsUpTo(Entries, MaxEntries) : WellFormed(f)}
    /\ remote_registry_url \in {None, Url}
    /\ remote \in RemoteModes
    \* with no URL configured the service is never asked: one service will do
    /\ remote_registry_url = None => remote.status = StatusNotFound
    /\ pc = "idle"
    /\ request = NoRequest
    /\ trace = <<>>
    /\ outcome = NoOutcome
    /\ call = NoCalls
    /\ frame = NoFrames

returns_auto_install(op, name, version, prefer_local, source, d) ==
    /\ pc' = "returned"
    /\ request' = [op |-> op, name |-> name, version |-> version,
                   prefer_local |-> prefer_local, source |-> source]
    /\ trace' = d.trace
    /\ outcome' = d.outcome
    /\ fs' = IF d.outcome.tag = "result" /\ d.outcome.result.source = "remote"
             THEN fs \cup {VerEntry("local", Kinds[1], d.outcome.result.name,
                                    d.outcome.result.version, "doc")}
             ELSE fs
    /\ UNCHANGED <<remote_registry_url, remote, call, frame>>

Returns(op, name, version, prefer_local, source, d) ==
    /\ pc' = "returned"
    /\ request' = [op |-> op, name |-> name, version |-> version,
                   prefer_local |-> prefer_local, source |-> source]
    /\ trace' = d.trace
    /\ outcome' = d.outcome
    /\ UNCHANGED <<fs, remote_registry_url, remote, call, frame>>

AgentResolve ==
    /\ pc = "idle"
    /\ \E name \in Tokens, version \in VersionArgs, prefer_local \in BOOLEAN :
          Returns("agent_resolve", name, version, prefer_local, NoSource,
                  registry_resolve("AgentNotFoundError", fs, remote_registry_url, remote,
                                   name, version, prefer_local))

ToolResolve ==
    /\ pc = "idle"
    /\ \E name \in Tokens, version \in VersionArgs, prefer_local \in BOOLEAN :
          Returns("tool_resolve", name, version, prefer_local, NoSource,
                  registry_resolve("ToolNotFoundError", fs, remote_registry_url, remote,
                                   name, version, prefer_local))

AgentExists ==
    /\ pc = "idle"
    /\ \E name \in Tokens, version \in VersionArgs :
          Returns("agent_exists", name, version, TRUE, NoSource,
                  registry_exists("AgentNotFoundError", fs, remote_registry_url, remote,
                                  name, version))

ToolExists ==
    /\ pc = "idle"
    /\ \E name \in Tokens, version \in VersionArgs :
          Returns("tool_exists", name, version, TRUE, NoSource,
                  registry_exists("ToolNotFoundError", fs, remote_registry_url, remote,
                                  name, version))

AgentList ==
    /\ pc = "idle"
    /\ \E source \in Sources :
          \E d \in registry_list(fs, remote_registry_url, remote, source) :
              Returns("agent_list", <<>>, None, TRUE, source, d)

ToolList ==
    /\ pc = "idle"
    /\ \E source \in Sources :
          \E d \in registry_list(fs, remote_registry_url, remote, source) :
              Returns("tool_list", <<>>, None, TRUE, source, d)

\* the caller has taken the outcome; the registry keeps nothing of the call
Return ==
    /\ pc = "returned"
    /\ pc' = "idle"
    /\ request' = NoRequest
    /\ trace' = <<>>
    /\ outcome' = NoOutcome
    /\ UNCHANGED <<fs, remote_registry_url, remote, call, frame>>

Next ==
    \/ AgentResolve
    \/ ToolResolve
    \/ AgentExists
    \/ ToolExists
    \/ AgentList
    \/ ToolList
    \/ Return

Spec == Init /\ [][Next]_vars

\* the caller makes the resolve it has just made once more, with the same
\* arguments, on the same registry instance
AgentResolveAgain ==
    /\ pc \in {"returned", "repeated"}
    /\ request.op = "agent_resolve"
    /\ LET d == registry_resolve("AgentNotFoundError", fs, remote_registry_url, remote,
                                 request.name, request.version, request.prefer_local)
       IN  /\ pc' = "repeated"
           /\ trace' = d.trace
           /\ outcome' = d.outcome
    /\ UNCHANGED <<fs, remote_registry_url, remote, request, call, frame>>

ToolResolveAgain ==
    /\ pc \in {"returned", "repeated"}
    /\ request.op = "tool_resolve"
    /\ LET d == registry_resolve("ToolNotFoundError", fs, remote_registry_url, remote,
                                 request.name, request.version, request.prefer_local)
       IN  /\ pc' = "repeated"
           /\ trace' = d.trace
           /\ outcome' = d.outcome
    /\ UNCHANGED <<fs, remote_registry_url, remote, request, call, frame>>

\* the caller has taken the outcome of the repeated call
ReturnAgain ==
    /\ pc = "repeated"
    /\ pc' = "idle"
    /\ request' = NoRequest
    /\ trace' = <<>>
    /\ outcome' = NoOutcome
    /\ UNCHANGED <<fs, remote_registry_url, remote, call, frame>>

NextTwice ==
    \/ Next
    \/ AgentResolveAgain
    \/ ToolResolveAgain
    \/ ReturnAgain

SpecTwice == Init /\ [][NextTwice]_vars

\* BaseResolver._parse_name_version applied to every token over 'a', '@', '1'
\* of bounded length
TokenChars == {97, AtSign, 49}

RECURSIVE StringsUpTo(_)
StringsUpTo(n) ==
    IF n = 0 THEN {<<>>}
    ELSE LET S == StringsUpTo(n - 1) IN S \cup {Append(t, c) : t \in S, c \in TokenChars}

\* the pair (name, version) the parser hands back
Parsed(p) ==
    [NoOutcome EXCEPT !.tag = "parsed",
                      !.result = [NoResult EXCEPT !.name = p[1], !.version = p[2]]]

ParseIdentifier ==
    /\ pc = "idle"
    /\ \E name \in StringsUpTo(MaxTokenLen) :
          Returns("_parse_name_version", name, None, TRUE, NoSource,
                  Done(<<>>, Parsed(_parse_name_version(name))))

InitParse ==
    /\ fs = {}
    /\ remote_registry_url = None
    /\ remote \in {rm \in RemoteModes : rm.status = StatusNotFound}
    /\ pc = "idle"
    /\ request = NoRequest
    /\ trace = <<>>
    /\ outcome = NoOutcome
    /\ call = NoCalls
    /\ frame = NoFrames

NextParse ==
    \/ ParseIdentifier
    \/ Return

SpecParse == InitParse /\ [][NextParse]_vars

\* the same calls with nothing on disk, so that resolve reaches the remote tier
\* when it is configured, over every answer of the service
InitRemote ==
    /\ fs = {}
    /\ remote_registry_url \in {None, Url}
    /\ remote \in RemoteModesAny
    /\ remote_registry_url = None => remote.status = StatusNotFound
    /\ pc = "idle"
    /\ request = NoRequest
    /\ trace = <<>>
    /\ outcome = NoOutcome
    /\ call = NoCalls
    /\ frame = NoFrames

SpecRemote == InitRemote /\ [][Next]_vars

\* the same calls over registry trees that also hold regular files where a
\* directory is expected and empty artifact directories; no remote configured
InitTree ==
    /\ fs \in {f \in SubsetsUpTo(TreeEntries, MaxEntries) : WellFormed(f)}
    /\ remote_registry_url = None
    /\ remote \in {rm \in RemoteModes : rm.status = StatusNotFound}
    /\ pc = "idle"
    /\ request = NoRequest
    /\ trace = <<>>
    /\ outcome = NoOutcome
    /\ call = NoCalls
    /\ frame = NoFrames

SpecTree == InitTree /\ [][Next]_vars

-----------------------------------------------------------------------------
(* Concurrent callers of one AgentRegistry.  A call runs its statements one  *)
(* tier at a time, and the callers' statements interleave; between two      *)
(* statements a call keeps its `result` (resolve, exists) or its `results`  *)
(* (list) in its frame.                                                     *)

frame_on_instance(c) == "c1"

\* `result` and `results` are local variables: every call has its own frame
Frame(c) == c

\* the calls a caller makes
CallRequests ==
    {[op |-> op, name |-> name, version |-> version, source |-> NoSource] :
        op \in {"agent_resolve", "agent_exists"}, name \in Tokens, version \in {None, Str2}}
    \cup {[op |-> "agent_list", name |-> <<>>, version |-> None, source |-> source] :
            source \in {NoSource, "local", "remote"}}

\* the registry trees the callers run over: at most one entry, of agent "a"
\* or "b" at version "2"
CallTrees ==
    {{}} \cup {{e} : e \in {x \in Entries : x.kind # Kinds[2] /\ x.ver # Str10}}

\* what the public method hands to its caller: agent_exists turns a result
\* into True and AgentNotFoundError into False
Finished(op, out) ==
    IF op # "agent_exists" THEN out
    ELSE IF out.tag = "result" THEN Bool(TRUE)
    ELSE IF out.error.type = "AgentNotFoundError" THEN Bool(FALSE)
    ELSE out

\* the call of caller c returns or raises out
Finish(c, out) ==
    /\ call' = [call EXCEPT ![c].pc = "done",
                            ![c].outcome = Finished(call[c].op, out)]
    /\ UNCHANGED frame

\* the call of caller c assigns out to its local variable and goes on
StoreAndGoto(c, out, next) ==
    /\ call' = [call EXCEPT ![c].pc = next]
    /\ frame' = [frame EXCEPT ![Frame(c)] = out]

\* self.client.get(...) is entered
Send(c) ==
    /\ call' = [call EXCEPT ![c].pc = "waiting", ![c].sent = @ + 1]
    /\ UNCHANGED frame

\* the method is entered; agent_list starts with `results = []`
CallStart(c) ==
    /\ call[c].pc = "idle"
    /\ \E r \in CallRequests :
          /\ call' = [call EXCEPT ![c] = [NoCall EXCEPT !.pc = "local", !.op = r.op,
                                                        !.name = r.name,
                                                        !.version = r.version,
                                                        !.source = r.source]]
          /\ IF r.op = "agent_list"
             THEN frame' = [frame EXCEPT ![Frame(c)] = Listed(<<>>)]
             ELSE UNCHANGED frame
    /\ UNCHANGED <<fs, remote_registry_url, remote, pc, request, trace, outcome>>

\* result = self.local_resolver.resolve(name, version), or
\* results.extend(self.local_resolver.list_all())
CallLocal(c) ==
    /\ call[c].pc = "local"
    /\ IF call[c].op = "agent_list"
       THEN IF call[c].source \in {NoSource, "local"}
            THEN \E out \in LocalListAll(fs, "local") :
                    IF out.tag = "raise" THEN Finish(c, out)
                    ELSE StoreAndGoto(c, Listed(frame[Frame(c)].list \o out.list), "global")
            ELSE StoreAndGoto(c, frame[Frame(c)], "global")
       ELSE LET out == LocalResolve(fs, "local", call[c].name, call[c].version) IN
            IF out.tag = "raise" THEN Finish(c, out)
            ELSE StoreAndGoto(c, out, "global")
    /\ UNCHANGED <<fs, remote_registry_url, remote, pc, request, trace, outcome>>

\* `if result: return result`, then the same statements on the global resolver
CallGlobal(c) ==
    /\ call[c].pc = "global"
    /\ IF call[c].op = "agent_list"
       THEN IF call[c].source \in {NoSource, "global"}
            THEN \E out \in GlobalListAll(fs) :
                    IF out.tag = "raise" THEN Finish(c, out)
                    ELSE StoreAndGoto(c, Listed(frame[Frame(c)].list \o out.list), "remote")
            ELSE StoreAndGoto(c, frame[Frame(c)], "remote")
       ELSE IF frame[Frame(c)].tag = "result" THEN Finish(c, frame[Frame(c)])
       ELSE LET out == GlobalResolve(fs, call[c].name, call[c].version) IN
            IF out.tag = "raise" THEN Finish(c, out)
            ELSE StoreAndGoto(c, out, "remote")
    /\ UNCHANGED <<fs, remote_registry_url, remote, pc, request, trace, outcome>>

\* `if result: return result`, then `if self.config.remote_registry_url:` and
\* the request to the service, or the end of the method
CallRemote(c) ==
    /\ call[c].pc = "remote"
    /\ IF call[c].op = "agent_list"
       THEN IF call[c].source \in {NoSource, "remote"} /\ Truthy(remote_registry_url)
            THEN Send(c)
            ELSE Finish(c, frame[Frame(c)])
       ELSE IF frame[Frame(c)].tag = "result" THEN Finish(c, frame[Frame(c)])
       ELSE IF Truthy(remote_registry_url) THEN Send(c)
       ELSE Finish(c, Raise(NotFoundError("AgentNotFoundError", call[c].name,
                                          call[c].version)))
    /\ UNCHANGED <<fs, remote_registry_url, remote, pc, request, trace, outcome>>

\* the rest of the `try` block once the remote resolver has returned or
\* raised out, `except Exception`, and the end of the method
Caught(c, out) ==
    IF call[c].op = "agent_list"
    THEN Finish(c, IF out.tag = "list" THEN Listed(frame[Frame(c)].list \o out.list)
                   ELSE frame[Frame(c)])
    ELSE Finish(c, IF out.tag = "result" THEN out
                   ELSE Raise(NotFoundError("AgentNotFoundError", call[c].name,
                                            call[c].version)))

\* the service answers, or the connection fails at once
CallReceive(c) ==
    /\ call[c].pc = "waiting"
    /\ remote # Silent
    /\ Caught(c, IF call[c].op = "agent_list"
                 THEN RemoteListAll(remote_registry_url, remote)
                 ELSE RemoteResolve(remote_registry_url, remote, call[c].name,
                                    call[c].version))
    /\ UNCHANGED <<fs, remote_registry_url, remote, pc, request, trace, outcome>>

\* no answer comes: the client's timeout ends the request with an httpx.HTTPError
CallTimeout(c) ==
    /\ call[c].pc = "waiting"
    /\ remote = Silent
    /\ ClientTimeout.bounded
    /\ Caught(c, Raise(NetworkErrorUrl(OrElse(remote_registry_url, DefaultUrl))))
    /\ UNCHANGED <<fs, remote_registry_url, remote, pc, request, trace, outcome>>

\* the caller has taken what the call gave
CallReturn(c) ==
    /\ call[c].pc = "done"
    /\ call' = [call EXCEPT ![c] = NoCall]
    /\ UNCHANGED <<frame, fs, remote_registry_url, remote, pc, request, trace, outcome>>

\* a statement of the call in progress of caller c
CallStep(c) ==
    \/ CallLocal(c)
    \/ CallGlobal(c)
    \/ CallRemote(c)
    \/ CallReceive(c)
    \/ CallTimeout(c)
    \/ CallReturn(c)

InitConcurrent ==
    /\ fs \in CallTrees
    /\ remote_registry_url \in {None, Url}
    /\ remote \in RemoteModes \cup {Silent}
    /\ remote_registry_url = None => remote.status = StatusNotFound
    /\ pc = "idle"
    /\ request = NoRequest
    /\ trace = <<>>
    /\ outcome = NoOutcome
    /\ call = NoCalls
    /\ frame = NoFrames

NextConcurrent ==
    \E c \in Callers :
        \/ CallStart(c)
        \/ CallStep(c)

SpecConcurrent == InitConcurrent /\ [][NextConcurrent]_vars

\* the same callers with the remote tier configured, over a service that
\* never answers, answers 404 or answers with a sound record
InitLive ==
    /\ fs \in {{}, {VerEntry("local", Kinds[1], StrA, Str2, "doc")}}
    /\ remote_registry_url = Url
    /\ remote \in {Silent} \cup {rm \in RemoteModes : rm.status = StatusNotFound \/ rm.body = "valid"}
    /\ pc = "idle"
    /\ request = NoRequest
    /\ trace = <<>>
    /\ outcome = NoOutcome
    /\ call = NoCalls
    /\ frame = NoFrames

\* every thread that is inside a call is scheduled again and again, and the
\* client's timer runs
SpecLive ==
    /\ InitLive
    /\ [][NextConcurrent]_vars
    /\ \A c \in Callers : WF_vars(CallStep(c))

-----------------------------------------------------------------------------
(* The Remote resolver used by itself: RemoteResolver(remote_registry_url) *)

RemoteResolverResolve ==
    /\ pc = "idle"
    /\ \E name \in Tokens, version \in VersionArgs :
          LET out == RemoteResolve(remote_registry_url, remote, name, version) IN
          Returns("remote_resolve", name, version, TRUE, NoSource,
                  Done(<<Sub("remote", out)>>, out))

RemoteResolverListAll ==
    /\ pc = "idle"
    /\ LET out == RemoteListAll(remote_registry_url, remote) IN
       Returns("remote_list_all", <<>>, None, TRUE, NoSource,
               Done(<<Sub("remote", out)>>, out))

\* the resolver is built with a URL or with none, over every answer of the
\* service
InitDirect ==
    /\ fs = {}
    /\ remote_registry_url \in {None, Url}
    /\ remote \in RemoteModesAny
    /\ pc = "idle"
    /\ request = NoRequest
    /\ trace = <<>>
    /\ outcome = NoOutcome
    /\ call = NoCalls
    /\ frame = NoFrames

NextDirect ==
    \/ RemoteResolverResolve
    \/ RemoteResolverListAll
    \/ Return

SpecDirect == InitDirect /\ [][NextDirect]_vars

-----------------------------------------------------------------------------
(* The Local resolver used by itself: list_all, resolve, and resolve of a   *)
(* record that list_all has just returned                                   *)

\* the local tree: artifact "a" in every shape, and an artifact directory
\* whose name holds the separator, "a@2"
LocalTreeEntries ==
    {e \in TreeEntries : e.tier = "local"}
    \cup {VerEntry("local", Kinds[k], StrA_at_2, v, "doc") : k \in 1..2, v \in VerDirs}

LocalResolverResolve ==
    /\ pc = "idle"
    /\ \E name \in Tokens, version \in VersionArgs :
          LET out == LocalResolve(fs, "local", name, version) IN
          Returns("local_resolve", name, version, TRUE, NoSource,
                  Done(<<Sub("local", out)>>, out))

LocalResolverListAll ==
    /\ pc = "idle"
    /\ \E out \in LocalListAll(fs, "local") :
          Returns("local_list_all", <<>>, None, TRUE, NoSource,
                  Done(<<Sub("local", out)>>, out))

\* resolve(r.name, r.version) for a record r of the listing just returned
LocalResolverResolveListed ==
    /\ pc = "returned"
    /\ request.op = "local_list_all"
    /\ outcome.tag = "list"
    /\ \E j \in 1..Len(outcome.list) :
          LET r == outcome.list[j]
              out == LocalResolve(fs, "local", r.name, r.version)
          IN  /\ pc' = "resolved"
              /\ request' = [op |-> "local_resolve", name |-> r.name, version |-> r.version,
                             prefer_local |-> TRUE, source |-> NoSource]
              /\ trace' = <<Sub("local", out)>>
              /\ outcome' = out
    /\ UNCHANGED <<fs, remote_registry_url, remote, call, frame>>

ReturnResolved ==
    /\ pc = "resolved"
    /\ pc' = "idle"
    /\ request' = NoRequest
    /\ trace' = <<>>
    /\ outcome' = NoOutcome
    /\ UNCHANGED <<fs, remote_registry_url, remote, call, frame>>

InitRoundTrip ==
    /\ fs \in {f \in SubsetsUpTo(LocalTreeEntries, MaxEntries) : WellFormed(f)}
    /\ remote_registry_url = None
    /\ remote \in {rm \in RemoteModes : rm.status = StatusNotFound}
    /\ pc = "idle"
    /\ request = NoRequest
    /\ trace = <<>>
    /\ outcome = NoOutcome
    /\ call = NoCalls
    /\ frame = NoFrames

NextRoundTrip ==
    \/ LocalResolverResolve
    \/ LocalResolverListAll
    \/ LocalResolverResolveListed
    \/ Return
    \/ ReturnResolved

SpecRoundTrip == InitRoundTrip /\ [][NextRoundTrip]_vars

-----------------------------------------------------------------------------
(* Identifier tokens without a name *)

\* resolve of a token whose name part is empty: "" and "@2"
UnnamedTokens == {StrEmpty, StrAt2}

AgentResolveUnnamed ==
    /\ pc = "idle"
    /\ \E name \in UnnamedTokens, version \in VersionArgs, prefer_local \in BOOLEAN :
          Returns("agent_resolve", name, version, prefer_local, NoSource,
                  registry_resolve("AgentNotFoundError", fs, remote_registry_url, remote,
                                   name, version, prefer_local))

ToolResolveUnnamed ==
    /\ pc = "idle"
    /\ \E name \in UnnamedTokens, version \in VersionArgs, prefer_local \in BOOLEAN :
          Returns("tool_resolve", name, version, prefer_local, NoSource,
                  registry_resolve("ToolNotFoundError", fs, remote_registry_url, remote,
                                   name, version, prefer_local))

\* the calls, those with an empty name among them, over the small trees
InitNames ==
    /\ fs \in CallTrees
    /\ remote_registry_url \in {None, Url}
    /\ remote \in RemoteModes
    /\ remote_registry_url = None => remote.status = StatusNotFound
    /\ pc = "idle"
    /\ request = NoRequest
    /\ trace = <<>>
    /\ outcome = NoOutcome
    /\ call = NoCalls
    /\ frame = NoFrames

NextNames ==
    \/ Next
    \/ AgentResolveUnnamed
    \/ ToolResolveUnnamed

SpecNames == InitNames /\ [][NextNames]_vars

-----------------------------------------------------------------------------
(* What the claims speak of *)

IsResolve == pc = "returned" /\ request.op \in {"agent_resolve", "tool_resolve"}
IsExists == pc = "returned" /\ request.op \in {"agent_exists", "tool_exists"}
IsList == pc = "returned" /\ request.op \in {"agent_list", "tool_list"}

\* the kind's not-found error of the registry the request went to
KindError ==
    IF request.op \in {"agent_resolve", "agent_exists", "agent_list"}
    THEN "AgentNotFoundError" ELSE "ToolNotFoundError"

\* the name and the version the request asks for
RequestedName == _parse_name_version(request.name)[1]
RequestedVersion == OrElse(request.version, _parse_name_version(request.name)[2])

TierOrder == <<"local", "global", "remote">>

\* what each resolver answers to the request, taken alone
LocalAnswer == LocalResolve(fs, "local", request.name, request.version)
GlobalAnswer == GlobalResolve(fs, request.name, request.version)
RemoteAnswer == RemoteResolve(remote_registry_url, remote, request.name, request.version)

\* the sub-calls to the filesystem tiers
FsCalls == {i \in 1..Len(trace) : trace[i].tier \in Tiers}

-----------------------------------------------------------------------------
\* C1: resolve consults local, global, remote one at a time in that order and
\* stops at the first tier that yields a result: a local result means global
\* and remote were not called and the local result is returned, a global
\* result means remote was not called, and at most three sub-calls are made.
C1_TierOrderFirstWins ==
    IsResolve =>
        /\ Len(trace) \in 1..3
        /\ \A i \in 1..Len(trace) : trace[i].tier = TierOrder[i]
        /\ \A i \in 1..(Len(trace) - 1) : trace[i].out.tag = "absent"
        /\ LocalAnswer.tag = "result" =>
              trace = <<Sub("local", LocalAnswer)>> /\ outcome = LocalAnswer
        /\ (LocalAnswer.tag = "absent" /\ GlobalAnswer.tag = "result") =>
              /\ trace = <<Sub("local", LocalAnswer), Sub("global", GlobalAnswer)>>
              /\ outcome = GlobalAnswer

\* a local match is returned although the remote service would answer too
C1_Witness ==
    /\ IsResolve
    /\ Truthy(remote_registry_url)
    /\ RemoteAnswer.tag = "result"
    /\ outcome.tag = "result"
    /\ outcome.result.source = "local"
    /\ Len(trace) = 1

\* C2: with local and global absent and a remote URL configured, resolve
\* ends in the kind's NotFoundError whether the remote resolver returns
\* absent or raises any error; no remote-tier error reaches the caller.
C2_RemoteFailureIsNotFound ==
    (/\ IsResolve
     /\ Truthy(remote_registry_url)
     /\ LocalAnswer.tag = "absent"
     /\ GlobalAnswer.tag = "absent"
     /\ RemoteAnswer.tag \in {"absent", "raise"})
    => /\ outcome.tag = "raise"
       /\ outcome.error.type = KindError
       /\ Len(trace) = 3
       /\ trace[3] = Sub("remote", RemoteAnswer)

\* the remote resolver raised a NetworkError and the tool registry reported
\* ToolNotFoundError
C2_Witness ==
    /\ IsResolve
    /\ Len(trace) = 3
    /\ trace[3].out.tag = "raise"
    /\ trace[3].out.error.type = "NetworkError"
    /\ outcome.tag = "raise"
    /\ outcome.error.type = "ToolNotFoundError"

\* C3: when the definition document the local tier selects (or, local being
\* absent, the global tier selects) cannot be read or parsed, resolve fails
\* at once with a ResolutionError carrying the artifact name and the
\* document path; no later tier is consulted.
C3_BrokenRecordPropagates ==
    IsResolve =>
        /\ \A i \in FsCalls :
              trace[i].out.tag = "raise" =>
                  /\ i = Len(trace)
                  /\ outcome = trace[i].out
                  /\ outcome.error.type = "ResolutionError"
                  /\ outcome.error.name = RequestedName
                  /\ \E e \in fs :
                        /\ e.node = "baddoc"
                        /\ e.tier = trace[i].tier
                        /\ e.name = RequestedName
                        /\ outcome.error.path =
                              DefinitionPath(e.tier, e.kind, e.name, e.ver)
        \* a local tier whose only record is the requested one, broken
        /\ \A e \in fs :
              (/\ e.node = "baddoc"
               /\ e.tier = "local"
               /\ e.name = RequestedName
               /\ (Truthy(RequestedVersion) => RequestedVersion = e.ver)
               /\ \A x \in fs : (x.tier = "local" /\ x.node # "root") => x = e)
              => outcome = Raise(ResolutionError(e.name,
                              DefinitionPath(e.tier, e.kind, e.name, e.ver)))

\* the global tier hit a broken record with the remote tier configured
C3_Witness ==
    /\ IsResolve
    /\ Truthy(remote_registry_url)
    /\ Len(trace) = 2
    /\ trace[2].tier = "global"
    /\ outcome.tag = "raise"
    /\ outcome.error.type = "ResolutionError"

\* C4: the NotFoundError of a resolve that found nothing carries the
\* requested name, the requested version (explicit or embedded as
\* name@version) and the list of the tiers searched in that call.
C4_NotFoundCarriesRequest ==
    (IsResolve /\ outcome.tag = "raise" /\ outcome.error.type = KindError) =>
        /\ outcome.error.name = request.name
        /\ Truthy(RequestedVersion) =>
              \/ outcome.error.version = RequestedVersion
              \/ _parse_name_version(outcome.error.name)[2] = RequestedVersion
        /\ outcome.error.searched = [i \in 1..Len(trace) |-> trace[i].tier]

\* C5: exists is true exactly when resolve returns a result, false exactly
\* when resolve fails with the kind's NotFoundError, and any other failure
\* of resolve leaves exists unchanged.
C5_ExistsFollowsResolve ==
    IsExists =>
        LET d == registry_resolve(KindError, fs, remote_registry_url, remote,
                                  request.name, request.version, TRUE)
            notFound == d.outcome.tag = "raise" /\ d.outcome.error.type = KindError
        IN  /\ outcome.tag = "true" <=> d.outcome.tag = "result"
            /\ outcome.tag = "false" <=> notFound
            /\ (d.outcome.tag = "raise" /\ ~notFound) => outcome = d.outcome
            /\ trace = d.trace

\* exists let the ResolutionError of a corrupt record through
C5_Witness ==
    /\ IsExists
    /\ outcome.tag = "raise"
    /\ outcome.error.type = "ResolutionError"

\* the tiers a list call with this filter consults, in order
Selects(t) ==
    /\ request.source = NoSource \/ request.source = t
    /\ t = "remote" => Truthy(remote_registry_url)

RECURSIVE ConcatLists(_)
ConcatLists(tr) ==
    IF tr = <<>> THEN <<>> ELSE Head(tr).out.list \o ConcatLists(Tail(tr))

ListAllOf(t) ==
    IF t = "local" THEN LocalListAll(fs, "local")
    ELSE IF t = "global" THEN GlobalListAll(fs)
    ELSE {RemoteListAll(remote_registry_url, remote)}

\* C6: list returns the concatenation, in the order local, global, remote
\* and without deduplication, of list_all() of exactly the tiers the filter
\* selects (remote only with a URL configured); a failing remote list_all
\* contributes nothing and the local and global results are still returned.
C6_ListConcatenatesSelected ==
    IsList =>
        /\ \A i \in 1..Len(trace) : trace[i].out \in ListAllOf(trace[i].tier)
        /\ (\A i \in FsCalls : trace[i].out.tag # "raise") =>
              /\ [i \in 1..Len(trace) |-> trace[i].tier] = SelectSeq(TierOrder, Selects)
              /\ outcome = Listed(ConcatLists(trace))

\* all three tiers listed, the remote one failing, the others' records kept
C6_Witness ==
    /\ IsList
    /\ Len(trace) = 3
    /\ trace[1].out.list # <<>>
    /\ trace[2].out.list # <<>>
    /\ trace[3].out.tag = "raise"
    /\ outcome = Listed(trace[1].out.list \o trace[2].out.list)

\* C7: a result returned by resolve carries the source tag of the tier whose
\* resolver produced it, which for the filesystem tiers is the tier under
\* whose root the definition document lies.
C7_SourceIsProducingTier ==
    (IsResolve /\ outcome.tag = "result") =>
        /\ outcome.result.source = trace[Len(trace)].tier
        /\ outcome.result.source \in Tiers =>
              /\ outcome.result.path[1] = outcome.result.source
              /\ DefinitionLoads(fs, outcome.result.source, outcome.result.path[2],
                                 outcome.result.name, outcome.result.version)

\* found in global only, the local root existing and empty
C7_Witness ==
    /\ IsResolve
    /\ outcome.tag = "result"
    /\ outcome.result.source = "global"
    /\ RootExists(fs, "local")
    /\ \A e \in fs : e.tier = "local" => e.node = "root"

\* C8: every result the Global Resolver produces carries source = global,
\* from list_all as well as from resolve.
C8_GlobalResultsTaggedGlobal ==
    (IsResolve \/ IsList) =>
        \A i \in 1..Len(trace) :
            trace[i].tier = "global" =>
                /\ trace[i].out.tag = "result" => trace[i].out.result.source = "global"
                /\ \A j \in 1..Len(trace[i].out.list) :
                      trace[i].out.list[j].source = "global"

\* C9: with no version requested, a result of Local or Global resolve has the
\* lexically greatest version-directory name of the artifact's directory in
\* the bucket that answered.
C9_LatestIsLexicalMax ==
    (IsResolve /\ ~Truthy(RequestedVersion)) =>
        \A i \in FsCalls :
            trace[i].out.tag = "result" =>
                LET r == trace[i].out.result
                    versions == VersionDirsOf(fs, trace[i].tier, r.path[2], r.name)
                IN  /\ r.name = RequestedName
                    /\ r.version \in versions
                    /\ \A v \in versions : v = r.version \/ StrLess(v, r.version)

\* "2" answered although "10" is there too
C9_Witness ==
    /\ IsResolve
    /\ ~Truthy(RequestedVersion)
    /\ outcome.tag = "result"
    /\ outcome.result.source = "local"
    /\ outcome.result.version = Str2
    /\ Str10 \in VersionDirsOf(fs, "local", outcome.result.path[2], outcome.result.name)

\* C10: with a version requested, Local or Global resolve answers only from
\* a version directory named exactly as requested that holds a definition
\* document: from the first kind bucket that has one, and absent when none
\* has, whatever other versions are there.
C10_ExactVersionOnly ==
    (IsResolve /\ Truthy(RequestedVersion)) =>
        \A i \in FsCalls :
            LET t == trace[i].tier
                has == {k \in 1..Len(Kinds) :
                          DefinitionExists(fs, t, Kinds[k], RequestedName, RequestedVersion)}
            IN  /\ has = {} => trace[i].out.tag = "absent"
                /\ trace[i].out.tag = "result" =>
                      /\ trace[i].out.result.name = RequestedName
                      /\ trace[i].out.result.version = RequestedVersion
                      /\ has # {}
                      /\ \A k \in has :
                            Kinds[k] = trace[i].out.result.path[2] \/ \E j \in has : j < k

\* version "2" asked for, only "10" on disk in the agents bucket: absent
C10_Witness ==
    /\ IsResolve
    /\ RequestedVersion = Str2
    /\ RequestedName = StrA
    /\ DefinitionLoads(fs, "local", "agents", StrA, Str10)
    /\ trace[1].out.tag = "absent"

-----------------------------------------------------------------------------
\* C11: a local or global registry root that does not exist is an empty
\* registry: for every name and version the tier's resolve returns absent and
\* its list_all returns the empty sequence, neither raises, and the
\* orchestrator's resolve goes on to the next tier.
C11_MissingRootIsEmptyRegistry ==
    /\ IsResolve =>
          \A i \in FsCalls :
              ~RootExists(fs, trace[i].tier) =>
                  /\ trace[i].out = Absent
                  /\ (i = 1) => (Len(trace) >= 2 /\ trace[2].tier = "global")
                  /\ (i = 2 /\ Truthy(remote_registry_url)) =>
                        (Len(trace) = 3 /\ trace[3].tier = "remote")
                  /\ (i = 2 /\ ~Truthy(remote_registry_url)) =>
                        (outcome.tag = "raise" /\ outcome.error.type = KindError)
    /\ IsList =>
          \A i \in FsCalls :
              ~RootExists(fs, trace[i].tier) => trace[i].out = Listed(<<>>)

\* a resolve whose local root is missing is answered by the global tier
C11_Witness ==
    /\ IsResolve
    /\ ~RootExists(fs, "local")
    /\ Len(trace) = 2
    /\ trace[1].out = Absent
    /\ outcome.tag = "result"
    /\ outcome.result.source = "global"

-----------------------------------------------------------------------------
\* C12: whatever is on disk (a name or version entry that is a regular file,
\* an empty artifact directory, a version directory without a definition
\* document), the Local and Global resolve return a result, return absent, or
\* raise ResolutionError, and they raise only when a definition document that
\* was found cannot be read or parsed; no other kind of error escapes.
C12_ResultAbsentOrResolutionError ==
    IsResolve =>
        \A i \in FsCalls :
            /\ trace[i].out.tag \in {"result", "absent", "raise"}
            /\ trace[i].out.tag = "raise" =>
                  /\ trace[i].out.error.type = "ResolutionError"
                  /\ \E e \in fs : /\ e.tier = trace[i].tier
                                   /\ e.name = RequestedName
                                   /\ e.node = "baddoc"

-----------------------------------------------------------------------------
\* C13: parsing an identifier token returns (token, absent) when the token
\* has no '@'; otherwise it returns the text before the first '@' as name and
\* all the text after that first '@' as version, so that a@1@1 gives
\* ("a", "1@1") and name, '@', version joined again are the token.
C13_SplitOnFirstAt ==
    (pc = "returned" /\ request.op = "_parse_name_version") =>
        LET token == request.name
            name == outcome.result.name
            version == outcome.result.version
            HasAt(t) == \E i \in 1..Len(t) : t[i] = AtSign
        IN /\ ~HasAt(token) => (name = token /\ version = None)
           /\ HasAt(token) =>
                 /\ version # None
                 /\ ~HasAt(name)
                 /\ name \o <<AtSign>> \o version = token

\* the token a@1@1 parsed into the name "a" and the version "1@1"
C13_Witness ==
    /\ pc = "returned"
    /\ request.op = "_parse_name_version"
    /\ request.name = <<97, 64, 49, 64, 49>>
    /\ outcome.result.name = <<97>>
    /\ outcome.result.version = <<49, 64, 49>>

-----------------------------------------------------------------------------
\* C14: when the token embeds a version (name@v1) and an explicit version v2
\* is given too, the Local, Global and Remote resolve look up v2; the
\* embedded version is looked up only when no explicit version is given.
C14_ExplicitVersionWins ==
    IsResolve =>
        LET embedded == _parse_name_version(request.name)[2]
            Uses(v) ==
                \A i \in 1..Len(trace) :
                    /\ trace[i].out.tag = "result" => trace[i].out.result.version = v
                    /\ (/\ trace[i].tier \in Tiers
                        /\ \A k \in 1..Len(Kinds) :
                              ~DefinitionExists(fs, trace[i].tier, Kinds[k], RequestedName, v))
                          => trace[i].out = Absent
        IN  Truthy(embedded) =>
                /\ Truthy(request.version) => Uses(request.version)
                /\ ~Truthy(request.version) => Uses(embedded)

\* a@2 asked for with the explicit version 10: the local tier holds both
\* versions and answers with version 10
C14_Witness ==
    /\ IsResolve
    /\ request.name = StrA_at_2
    /\ request.version = Str10
    /\ DefinitionLoads(fs, "local", Kinds[1], StrA, Str2)
    /\ DefinitionLoads(fs, "local", Kinds[1], StrA, Str10)
    /\ outcome.tag = "result"
    /\ outcome.result.version = Str10

-----------------------------------------------------------------------------
\* C15: the Remote resolve maps the service's answer so: 404 gives absent; a
\* success status (2xx) gives a result with source remote; every status that
\* is neither success nor 404 raises NetworkError carrying that status code;
\* a transport failure raises NetworkError carrying the target URL.
C15_RemoteStatusMapping ==
    IsResolve =>
        \A i \in 1..Len(trace) :
            trace[i].tier = "remote" =>
                LET out == trace[i].out
                    success == remote.status \in 200..299
                IN  /\ ~remote.reachable =>
                          /\ out.tag = "raise"
                          /\ out.error.type = "NetworkError"
                          /\ out.error.url = remote_registry_url
                    /\ (remote.reachable /\ remote.status = StatusNotFound) =>
                          out = Absent
                    /\ (remote.reachable /\ success /\ remote.body = "valid") =>
                          /\ out.tag = "result"
                          /\ out.result.source = "remote"
                    /\ (remote.reachable /\ ~success /\ remote.status # StatusNotFound) =>
                          /\ out.tag = "raise"
                          /\ out.error.type = "NetworkError"
                          /\ out.error.status_code = remote.status

-----------------------------------------------------------------------------
-----------------------------------------------------------------------------
\* what the call in progress of caller c gives when it runs alone
AloneOutcomes(c) ==
    IF call[c].op = "agent_resolve"
    THEN {registry_resolve("AgentNotFoundError", fs, remote_registry_url, remote,
                           call[c].name, call[c].version, TRUE).outcome}
    ELSE IF call[c].op = "agent_exists"
    THEN {registry_exists("AgentNotFoundError", fs, remote_registry_url, remote,
                          call[c].name, call[c].version).outcome}
    ELSE {d.outcome : d \in registry_list(fs, remote_registry_url, remote, call[c].source)}

\* C17: when resolve, list and exists calls run at the same time on one
\* orchestrator over an unchanged registry, however their statements
\* interleave each call gives what it gives when run alone, and no call
\* writes to the configuration, the disk or the service.
C17_ConcurrentCallsIndependent ==
    /\ [](\A c \in Callers : call[c].pc = "done" => call[c].outcome \in AloneOutcomes(c))
    /\ [][UNCHANGED <<fs, remote_registry_url, remote>>]_vars

\* a resolve answered by the local tier has ended while another caller's
\* resolve of another name is between its tiers
C17_Witness ==
    /\ call["c1"].pc = "done"
    /\ call["c1"].op = "agent_resolve"
    /\ call["c1"].outcome.tag = "result"
    /\ call["c1"].outcome.result.source = "local"
    /\ call["c2"].pc = "remote"
    /\ call["c2"].op = "agent_resolve"
    /\ call["c2"].name # call["c1"].name

-----------------------------------------------------------------------------
\* C18: every resolve, exists and list call on the orchestrator comes to an
\* end, also when the remote service never answers: the call sends at most
\* one request to the service, the request is cut off by the client's
\* timeout, and the failure is swallowed; no tier is tried again.
C18_EveryCallCompletes ==
    /\ \A c \in Callers : (call[c].pc # "idle") ~> (call[c].pc = "done")
    /\ [](\A c \in Callers : call[c].sent <= 1)
    /\ [][\A c \in Callers :
            (call[c].pc = "waiting" /\ call'[c].pc # "waiting") => call'[c].pc = "done"]_vars

\* a resolve that met a service that never answers has ended with the
\* not-found error of its kind, after one request
C18_Witness ==
    /\ remote = Silent
    /\ call["c1"].pc = "done"
    /\ call["c1"].op = "agent_resolve"
    /\ call["c1"].sent = 1
    /\ call["c1"].outcome.tag = "raise"
    /\ call["c1"].outcome.error.type = "AgentNotFoundError"

-----------------------------------------------------------------------------
\* C19: the orchestrator calls the Remote resolver exactly when the
\* configuration has a remote URL, and a URL that is not specified defaults
\* to the fixed service endpoint: with the default configuration a resolve
\* that finds nothing on disk asks the remote tier at that endpoint.
C19_RemoteEnabledByDefault ==
    (IsResolve /\ LocalAnswer.tag = "absent" /\ GlobalAnswer.tag = "absent") =>
        LET asked == Len(trace) = 3 /\ trace[3].tier = "remote"
        IN  /\ Truthy(remote_registry_url) <=> asked
            /\ remote_registry_url = AgentConfig.remote_registry_url => asked

-----------------------------------------------------------------------------
\* the lexically greatest version directory of the artifact in a bucket
GreatestVersion(t, k, n) ==
    CHOOSE v \in VersionDirsOf(fs, t, k, n) :
        \A w \in VersionDirsOf(fs, t, k, n) : w = v \/ StrLess(w, v)

\* C20: with no version requested, the Local and Global resolve look at the
\* lexically greatest version directory of the artifact only: when that
\* directory has no definition document the bucket gives nothing, also when
\* a smaller version directory has one.
C20_OnlyGreatestVersionDirectory ==
    (IsResolve /\ ~Truthy(RequestedVersion)) =>
        \A i \in FsCalls :
            LET t == trace[i].tier
                Barren(k) ==
                    \/ VersionDirsOf(fs, t, Kinds[k], RequestedName) = {}
                    \/ ~DefinitionExists(fs, t, Kinds[k], RequestedName,
                                         GreatestVersion(t, Kinds[k], RequestedName))
            IN  /\ \A k \in 1..Len(Kinds) :
                      Barren(k) =>
                          /\ trace[i].out.tag = "result" =>
                                trace[i].out.result.path[2] # Kinds[k]
                          /\ trace[i].out.tag = "raise" =>
                                trace[i].out.error.path[2] # Kinds[k]
                /\ (\A k \in 1..Len(Kinds) : Barren(k)) => trace[i].out = Absent

\* the local agents bucket holds a/10 with a definition document and a/2, the
\* lexically greater one, without: resolve of "a" finds nothing in the local tier
C20_Witness ==
    /\ IsResolve
    /\ request.name = StrA
    /\ request.version = None
    /\ VerEntry("local", Kinds[1], StrA, Str10, "doc") \in fs
    /\ VerEntry("local", Kinds[1], StrA, Str2, "verdir") \in fs
    /\ trace[1].out = Absent

-----------------------------------------------------------------------------
\* C21: a token whose name part, the text before the first '@', is empty
\* ("" or "@2") is never looked up: no tier answers it with a result and it
\* is not sent to the remote registry as the name parameter.
C21_EmptyNameNeverLookedUp ==
    (IsResolve /\ RequestedName = <<>>) =>
        \A i \in 1..Len(trace) :
            /\ trace[i].out.tag # "result"
            /\ trace[i].tier # "remote"

-----------------------------------------------------------------------------
\* C22: when the remote registry answers resolve or list_all with a success
\* status and a body that is no JSON or lacks the field name or version, the
\* Remote resolver raises NetworkError or ResolutionError and no error of
\* another kind.
C22_BadBodyIsNetworkOrResolutionError ==
    (IsResolve \/ IsList) =>
        \A i \in 1..Len(trace) :
            (/\ trace[i].tier = "remote"
             /\ remote.reachable
             /\ remote.status \in 200..299
             /\ remote.body \in {"notjson", "nofield"}) =>
                /\ trace[i].out.tag = "raise"
                /\ trace[i].out.error.type \in {"NetworkError", "ResolutionError"}

-----------------------------------------------------------------------------
\* C23: the Remote list_all follows the error rules of the Remote resolve: a
\* 404 answer is the empty sequence and no error, every other status that is
\* not a success raises NetworkError carrying the status code, and a
\* transport failure raises NetworkError carrying the target URL.
C23_RemoteListErrorRules ==
    IsList =>
        \A i \in 1..Len(trace) :
            trace[i].tier = "remote" =>
                LET out == trace[i].out IN
                /\ ~remote.reachable =>
                      /\ out.tag = "raise"
                      /\ out.error.type = "NetworkError"
                      /\ out.error.url = remote_registry_url
                /\ (remote.reachable /\ remote.status = StatusNotFound) =>
                      out = Listed(<<>>)
                /\ (/\ remote.reachable
                    /\ remote.status \notin 200..299
                    /\ remote.status # StatusNotFound) =>
                      /\ out.tag = "raise"
                      /\ out.error.type = "NetworkError"
                      /\ out.error.status_code = remote.status

-----------------------------------------------------------------------------
\* C24: list_all of a Remote resolver whose remote is disabled, one built
\* with no registry URL, returns the empty sequence: it does not fail and it
\* asks no service.
C24_DisabledRemoteListsNothing ==
    (pc = "returned" /\ request.op = "remote_list_all" /\ remote_registry_url = None) =>
        outcome = Listed(<<>>)

-----------------------------------------------------------------------------
\* the version directories of tier t that hold a definition document
DocumentsOf(t) == {e \in fs : e.tier = t /\ e.node \in {"doc", "baddoc"}}

\* the listing l has exactly one result for each of them, and nothing else
OneResultPerDocument(t, l) ==
    /\ Len(l) = Cardinality(DocumentsOf(t))
    /\ \A e \in DocumentsOf(t) :
          Cardinality({j \in 1..Len(l) :
                          /\ l[j].name = e.name
                          /\ l[j].version = e.ver
                          /\ l[j].path = PathOf(t, e.kind, e.name, e.ver)}) = 1

-----------------------------------------------------------------------------
\* the definition documents of a selected filesystem tier that do not parse
CorruptSelected ==
    {e \in fs : e.node = "baddoc" /\ (request.source = NoSource \/ request.source = e.tier)}

\* the registry state with the corrupt documents of the artifacts other
\* than the requested one repaired
OthersRepaired ==
    {IF e.node = "baddoc" /\ e.name # RequestedName THEN [e EXCEPT !.node = "doc"] ELSE e :
        e \in fs}

\* C26: the orchestrator list is all-or-nothing for the filesystem tiers: one
\* definition document of a selected local or global tier that does not parse
\* makes list fail with ResolutionError and return none of the readable
\* entries, while a failing remote listing alone never fails list; resolve is
\* not touched by the corrupt documents of other artifacts.
C26_ListAllOrNothing ==
    /\ IsList =>
          /\ CorruptSelected # {} =>
                /\ outcome.tag = "raise"
                /\ outcome.list = <<>>
                /\ outcome.error.type = "ResolutionError"
                /\ \E e \in CorruptSelected :
                      /\ outcome.error.name = e.name
                      /\ outcome.error.path = DefinitionPath(e.tier, e.kind, e.name, e.ver)
          /\ CorruptSelected = {} => outcome.tag = "list"
    /\ IsResolve =>
          /\ outcome = registry_resolve(KindError, OthersRepaired, remote_registry_url,
                                        remote, request.name, request.version,
                                        request.prefer_local).outcome
          /\ (outcome.tag = "raise" /\ outcome.error.type = "ResolutionError") =>
                outcome.error.name = RequestedName

\* the local tier lists a readable record, the global tier holds a corrupt
\* one, and list fails without returning the readable one
C26_Witness ==
    /\ IsList
    /\ request.source = NoSource
    /\ Len(trace) = 2
    /\ trace[1].out.tag = "list"
    /\ trace[1].out.list # <<>>
    /\ trace[2].out.tag = "raise"
    /\ outcome.tag = "raise"
    /\ outcome.list = <<>>

-----------------------------------------------------------------------------
\* the same resolve request made with the other value of prefer_local
OtherPreference ==
    registry_resolve(KindError, fs, remote_registry_url, remote,
                     request.name, request.version, ~request.prefer_local)

-----------------------------------------------------------------------------
\* the not-found error of the other registry
OtherKindError ==
    IF KindError = "AgentNotFoundError" THEN "ToolNotFoundError" ELSE "AgentNotFoundError"

\* two outcomes that are the same, or the two registries' own not-found
\* errors with the same content
SameButErrorType(a, b) ==
    \/ a = b
    \/ /\ a.tag = "raise" /\ b.tag = "raise"
       /\ a.error.type = KindError /\ b.error.type = OtherKindError
       /\ [a.error EXCEPT !.type = ""] = [b.error EXCEPT !.type = ""]

\* the bucket k of tier t has the document the request is answered from: at
\* the version asked for, else at the lexically greatest version directory
BucketAnswers(t, k) ==
    IF Truthy(RequestedVersion)
    THEN DefinitionExists(fs, t, k, RequestedName, RequestedVersion)
    ELSE /\ VersionDirsOf(fs, t, k, RequestedName) # {}
         /\ DefinitionExists(fs, t, k, RequestedName, GreatestVersion(t, k, RequestedName))

\* the bucket a resolver's answer came from
BucketOf(out) == IF out.tag = "result" THEN out.result.path[2] ELSE out.error.path[2]

-----------------------------------------------------------------------------
\* C29: listing and resolving in the local tier round-trip: resolve(r.name,
\* r.version) of a record r that list_all returned gives a result with the
\* name and the version of r, and a result that resolve returns is, by name,
\* version and path, among the records of a list_all that succeeds.
C29_ListResolveRoundTrip ==
    /\ pc = "resolved" =>
          /\ outcome.tag = "result"
          /\ outcome.result.name = request.name
          /\ outcome.result.version = request.version
    /\ (pc = "returned" /\ request.op = "local_resolve" /\ outcome.tag = "result") =>
          \A out \in LocalListAll(fs, "local") :
              out.tag = "list" =>
                  \E j \in 1..Len(out.list) :
                      /\ out.list[j].name = outcome.result.name
                      /\ out.list[j].version = outcome.result.version
                      /\ out.list[j].path = outcome.result.path

-----------------------------------------------------------------------------
\* C30: every result the orchestrator resolve returns answers the request:
\* its name is the requested name without the @version suffix and, when a
\* version was requested, explicitly or embedded, its version is the
\* requested one, whichever tier produced it.
C30_ResultAnswersRequest ==
    (IsResolve /\ outcome.tag = "result") =>
        /\ outcome.result.name = RequestedName
        /\ Truthy(RequestedVersion) => outcome.result.version = RequestedVersion

====
